---- MODULE Spec2Model ----
(***************************************************************************)
(* BerryDB page pool (src/src/page_pool.cc): a bounded cache of page       *)
(* frames shared by the stores of a resource pool.  The state is the       *)
(* PagePool object and the Page objects it has created; every public call  *)
(* of the pool is one action, built from operators that follow the code    *)
(* of the method line by line.                                             *)
(***************************************************************************)
EXTENDS Integers, Sequences, FiniteSets, TLC

\* Bounds of the model.
MaxCapacity == 2      \* largest page_capacity a pool is constructed with
MaxPins == 2          \* callers hold at most this many pins on one frame
MaxPinCalls == 12     \* AddPin calls made directly on one frame

\* The pool only compares stores and page ids for equality, so the keys below
\* (more keys than a pool of MaxCapacity + 1 frames can hold) show every case.
Stores == {1, 2}
PageIds == {1, 2}
Frames == 1..MaxCapacity
Keys == Stores \X PageIds

\* Files and the users that hold them open through the Vfs.
Paths == {1, 2}
Users == {1, 2}

\* nullptr, for Page*, for TransactionImpl* and for FILE* / BlockAccessFile*
NoPage == 0
NoTransaction == 0
NoFile == 0

\* Status codes and fetch modes used by the pool.
kSuccess == "kSuccess"
kIoError == "kIoError"
kPoolFull == "kPoolFull"
kFetchPageData == "kFetchPageData"
kIgnorePageData == "kIgnorePageData"

VARIABLES
  page_capacity,  \* PagePool::page_capacity_
  page_count,     \* PagePool::page_count_, frames 1..page_count exist
  pin_count,      \* Page pin count, per frame
  is_dirty,       \* Page::is_dirty(), per frame
  transaction,    \* Page::transaction(), as the store whose init transaction owns the frame
  page_id,        \* Page::page_id(), per frame
  free_list,      \* PagePool::free_list_
  lru_list,       \* PagePool::lru_list_
  page_map,       \* PagePool::page_map_, NoPage where the key is absent
  io_log,         \* calls the last pool operation made on stores, in order
  trace,          \* steps of the last pool operation on frames, in order
  last_op,        \* the last pool operation, its arguments and what it returned
  outstanding,    \* pins handed to callers and not yet given back
  released,       \* frames released by ~PagePool, in order
  add_pins,       \* Page::AddPin calls made directly on a frame
  remove_pins,    \* Page::RemovePin calls made directly on a frame
  file_exists,    \* the file system: which paths name a file
  open_file,      \* per user, the path of the BlockAccessFile it holds open
  lock_held,      \* per user, whether its Lock() succeeded on the file it holds
  vfs_op          \* the last Vfs / file call, its arguments and what it returned

pool_vars == <<page_capacity, page_count, pin_count, is_dirty, transaction, page_id,
               free_list, lru_list, page_map, io_log, trace, last_op, outstanding,
               released>>

page_vars == <<add_pins, remove_pins>>

vfs_vars == <<file_exists, open_file, lock_held, vfs_op>>

vars == <<pool_vars, page_vars, vfs_vars>>

\* The pool and its frames as one value, so that methods are functions on it.
St ==
  [page_count |-> page_count, pin_count |-> pin_count, is_dirty |-> is_dirty,
   transaction |-> transaction, page_id |-> page_id, free_list |-> free_list,
   lru_list |-> lru_list, page_map |-> page_map, io_log |-> <<>>, trace |-> <<>>]

Commit(st) ==
  /\ page_count' = st.page_count
  /\ pin_count' = st.pin_count
  /\ is_dirty' = st.is_dirty
  /\ transaction' = st.transaction
  /\ page_id' = st.page_id
  /\ free_list' = st.free_list
  /\ lru_list' = st.lru_list
  /\ page_map' = st.page_map
  /\ io_log' = st.io_log
  /\ trace' = st.trace
  /\ UNCHANGED <<page_capacity, released, page_vars, vfs_vars>>

IoCall(call, store, pid, status) ==
  [call |-> call, store |-> store, page_id |-> pid, status |-> status]

\* A store call fails only if it is made.
Called(log, call) == \E i \in 1..Len(log) : log[i].call = call

VfsOp(op, user, path, create_if_missing, error_if_exists, existed, seek_ok, status, file) ==
  [op |-> op, user |-> user, path |-> path, create_if_missing |-> create_if_missing,
   error_if_exists |-> error_if_exists, existed |-> existed, seek_ok |-> seek_ok,
   status |-> status, file |-> file]

Op(op, store, pid, fetch_mode, page, status, result) ==
  [op |-> op, store |-> store, page_id |-> pid, fetch_mode |-> fetch_mode,
   page |-> page, status |-> status, result |-> result]

\* Sequence helpers for the intrusive lists.
RECURSIVE Erase(_, _)
Erase(list, page) ==
  IF list = <<>> THEN <<>>
  ELSE IF Head(list) = page THEN Tail(list)
  ELSE <<Head(list)>> \o Erase(Tail(list), page)

Members(list) == { list[i] : i \in 1..Len(list) }

\* A step on a frame, with where the frame is when the step is taken: on a
\* list, reachable through the resident map, dirty.
Log(st, event, page) ==
  [st EXCEPT !.trace = Append(@,
     [event |-> event, page |-> page,
      listed |-> page \in Members(st.free_list) \cup Members(st.lru_list),
      mapped |-> \E key \in Keys : st.page_map[key] = page,
      dirty |-> st.is_dirty[page]])]

(***************************************************************************)
(* Page                                                                    *)
(***************************************************************************)
AddPin(st, page) == [Log(st, "AddPin", page) EXCEPT !.pin_count[page] = @ + 1]

RemovePin(st, page) == [st EXCEPT !.pin_count[page] = @ - 1]

IsUnpinned(st, page) == st.pin_count[page] = 0

\* Page::Create: the frame is born with one pin, unassigned and clean.
Create(st, page) ==
  [st EXCEPT !.pin_count[page] = 1, !.is_dirty[page] = FALSE,
             !.transaction[page] = NoTransaction, !.page_id[page] = 0]

WillCacheStoreData(st, page, store, pid) ==
  [Log(st, "WillCacheStoreData", page) EXCEPT
     !.transaction[page] = store, !.page_id[page] = pid]

DoesNotCacheStoreData(st, page) ==
  [Log(st, "DoesNotCacheStoreData", page) EXCEPT
     !.transaction[page] = NoTransaction, !.page_id[page] = 0, !.is_dirty[page] = FALSE]

MarkDirty(st, page, will_be_dirty) == [st EXCEPT !.is_dirty[page] = will_be_dirty]

(***************************************************************************)
(* TransactionImpl, as far as the pool calls it                            *)
(***************************************************************************)
AssignPage(st, page, store, pid) == WillCacheStoreData(st, page, store, pid)

UnassignPage(st, page) == DoesNotCacheStoreData(st, page)

UnassignPersistedPage(st, page) == DoesNotCacheStoreData(st, page)

(***************************************************************************)
(* PagePool                                                                *)
(***************************************************************************)
\* Mutant: the unpinned frame is put on the LRU list instead of the free list.
UnpinUnassignedPageWrongList(st, page) ==
  LET unpinned == RemovePin(st, page)
  IN IF IsUnpinned(unpinned, page)
     THEN [unpinned EXCEPT !.lru_list = Append(@, page)]
     ELSE unpinned

UnpinUnassignedPage(st, page) ==
  LET unpinned == RemovePin(st, page)
  IN IF IsUnpinned(unpinned, page)
     THEN [unpinned EXCEPT !.free_list = Append(@, page)]
     ELSE unpinned

\* Mutant: the unpinned frame is put at the front of the LRU list.
UnpinStorePagePushesFront(st, page) ==
  LET unpinned == RemovePin(st, page)
  IN IF IsUnpinned(unpinned, page)
     THEN [unpinned EXCEPT !.lru_list = <<page>> \o @]
     ELSE unpinned

UnpinStorePage(st, page) ==
  LET unpinned == RemovePin(st, page)
  IN IF IsUnpinned(unpinned, page)
     THEN [unpinned EXCEPT !.lru_list = Append(@, page)]
     ELSE unpinned

\* Mutant: the resident-map entry of the evicted page is left behind.
UnassignPageFromStoreKeepsEntry(st, page, write_status) ==
  LET store == st.transaction[page]
      pid == st.page_id[page]
  IN IF st.is_dirty[page]
     THEN LET written == [st EXCEPT
                            !.io_log = Append(@, IoCall("WritePage", store, pid, write_status))]
              unassigned == UnassignPersistedPage(written, page)
          IN IF write_status # kSuccess
             THEN [unassigned EXCEPT
                     !.io_log = Append(@, IoCall("Close", store, 0, kSuccess))]
             ELSE unassigned
     ELSE UnassignPage(st, page)

\* Mutant: the evicted page is written back whether or not it is dirty.
UnassignPageFromStoreAlwaysWrites(st, page, write_status) ==
  LET store == st.transaction[page]
      pid == st.page_id[page]
      erased == [st EXCEPT !.page_map[<<store, pid>>] = NoPage]
      written == [erased EXCEPT
                    !.io_log = Append(@, IoCall("WritePage", store, pid, write_status))]
      unassigned == UnassignPersistedPage(written, page)
  IN IF write_status # kSuccess
     THEN [unassigned EXCEPT !.io_log = Append(@, IoCall("Close", store, 0, kSuccess))]
     ELSE unassigned

\* Mutant: a failed write-back does not close the store.
UnassignPageFromStoreNoClose(st, page, write_status) ==
  LET store == st.transaction[page]
      pid == st.page_id[page]
      erased == [st EXCEPT !.page_map[<<store, pid>>] = NoPage]
  IN IF erased.is_dirty[page]
     THEN UnassignPersistedPage(
            [erased EXCEPT
               !.io_log = Append(@, IoCall("WritePage", store, pid, write_status))], page)
     ELSE UnassignPage(erased, page)

\* Mutant: a frame that was written back keeps its dirty flag.
UnassignPageFromStoreKeepsDirty(st, page, write_status) ==
  LET store == st.transaction[page]
      pid == st.page_id[page]
      entered == Log(st, "UnassignPageFromStore", page)
      erased == [entered EXCEPT !.page_map[<<store, pid>>] = NoPage]
  IN IF erased.is_dirty[page]
     THEN LET written == [Log(erased, "WritePage", page) EXCEPT
                            !.io_log = Append(@, IoCall("WritePage", store, pid, write_status))]
              unassigned == [UnassignPersistedPage(written, page) EXCEPT
                               !.is_dirty[page] = write_status # kSuccess]
          IN IF write_status # kSuccess
             THEN [unassigned EXCEPT
                     !.io_log = Append(@, IoCall("Close", store, 0, kSuccess))]
             ELSE unassigned
     ELSE UnassignPage(erased, page)

\* Mutant: a dirty frame is unassigned before it is written back.
UnassignPageFromStoreUnassignsFirst(st, page, write_status) ==
  LET store == st.transaction[page]
      pid == st.page_id[page]
      entered == Log(st, "UnassignPageFromStore", page)
      erased == [entered EXCEPT !.page_map[<<store, pid>>] = NoPage]
  IN IF erased.is_dirty[page]
     THEN LET unassigned == UnassignPersistedPage(erased, page)
              written == [Log(unassigned, "WritePage", page) EXCEPT
                            !.io_log = Append(@, IoCall("WritePage", store, pid, write_status))]
          IN IF write_status # kSuccess
             THEN [written EXCEPT
                     !.io_log = Append(@, IoCall("Close", store, 0, kSuccess))]
             ELSE written
     ELSE UnassignPage(erased, page)

\* Mutant: the resident-map entry is erased after the write-back.
UnassignPageFromStoreWritesFirst(st, page, write_status) ==
  LET store == st.transaction[page]
      pid == st.page_id[page]
      entered == Log(st, "UnassignPageFromStore", page)
  IN IF entered.is_dirty[page]
     THEN LET written == [Log(entered, "WritePage", page) EXCEPT
                            !.io_log = Append(@, IoCall("WritePage", store, pid, write_status))]
              erased == [written EXCEPT !.page_map[<<store, pid>>] = NoPage]
              unassigned == UnassignPersistedPage(erased, page)
          IN IF write_status # kSuccess
             THEN [unassigned EXCEPT
                     !.io_log = Append(@, IoCall("Close", store, 0, kSuccess))]
             ELSE unassigned
     ELSE UnassignPage([entered EXCEPT !.page_map[<<store, pid>>] = NoPage], page)

UnassignPageFromStore(st, page, write_status) ==
  LET store == st.transaction[page]
      pid == st.page_id[page]
      entered == Log(st, "UnassignPageFromStore", page)
      erased == [entered EXCEPT !.page_map[<<store, pid>>] = NoPage]
  IN IF erased.is_dirty[page]
     THEN LET written == [Log(erased, "WritePage", page) EXCEPT
                            !.io_log = Append(@, IoCall("WritePage", store, pid, write_status))]
              unassigned == UnassignPersistedPage(written, page)
          IN IF write_status # kSuccess
             THEN [unassigned EXCEPT
                     !.io_log = Append(@, IoCall("Close", store, 0, kSuccess))]
             ELSE unassigned
     ELSE UnassignPage(erased, page)

\* Mutant: the capacity test is off by one.
AllocPageGrowsAtCapacity(st, write_status) ==
  IF st.free_list # <<>>
  THEN LET page == Head(st.free_list)
           popped == [st EXCEPT !.free_list = Tail(@)]
       IN [st |-> AddPin(popped, page), page |-> page]
  ELSE IF st.page_count <= page_capacity /\ st.page_count < MaxCapacity
  THEN LET grown == [st EXCEPT !.page_count = @ + 1]
       IN [st |-> Create(grown, grown.page_count), page |-> grown.page_count]
  ELSE IF st.lru_list # <<>>
  THEN LET page == Head(st.lru_list)
           pinned == AddPin(st, page)
           popped == [pinned EXCEPT !.lru_list = Tail(@)]
       IN [st |-> UnassignPageFromStore(popped, page, write_status), page |-> page]
  ELSE [st |-> st, page |-> NoPage]

\* Mutant: the victim is the most recently unpinned frame.
AllocPageEvictsBack(st, write_status) ==
  IF st.free_list # <<>>
  THEN LET page == Head(st.free_list)
           popped == [st EXCEPT !.free_list = Tail(@)]
       IN [st |-> AddPin(popped, page), page |-> page]
  ELSE IF st.page_count < page_capacity
  THEN LET grown == [st EXCEPT !.page_count = @ + 1]
       IN [st |-> Create(grown, grown.page_count), page |-> grown.page_count]
  ELSE IF st.lru_list # <<>>
  THEN LET page == st.lru_list[Len(st.lru_list)]
           pinned == AddPin(st, page)
           popped == [pinned EXCEPT !.lru_list = SubSeq(@, 1, Len(@) - 1)]
       IN [st |-> UnassignPageFromStore(popped, page, write_status), page |-> page]
  ELSE [st |-> st, page |-> NoPage]

AllocPagePrefersGrowth(st, write_status) ==
  IF st.page_count < page_capacity
  THEN LET grown == [st EXCEPT !.page_count = @ + 1]
       IN [st |-> Create(grown, grown.page_count), page |-> grown.page_count]
  ELSE IF st.free_list # <<>>
  THEN LET page == Head(st.free_list)
           popped == [st EXCEPT !.free_list = Tail(@)]
       IN [st |-> AddPin(popped, page), page |-> page]
  ELSE IF st.lru_list # <<>>
  THEN LET page == Head(st.lru_list)
           pinned == AddPin(st, page)
           popped == [pinned EXCEPT !.lru_list = Tail(@)]
       IN [st |-> UnassignPageFromStore(popped, page, write_status), page |-> page]
  ELSE [st |-> st, page |-> NoPage]

\* Mutant above: a new frame is created while free frames wait on the free list.
AllocPagePinsNewFrame(st, write_status) ==
  IF st.free_list # <<>>
  THEN LET page == Head(st.free_list)
           popped == [st EXCEPT !.free_list = Tail(@)]
       IN [st |-> AddPin(popped, page), page |-> page]
  ELSE IF st.page_count < page_capacity
  THEN LET grown == [st EXCEPT !.page_count = @ + 1]
       IN [st |-> AddPin(Create(grown, grown.page_count), grown.page_count),
           page |-> grown.page_count]
  ELSE IF st.lru_list # <<>>
  THEN LET page == Head(st.lru_list)
           pinned == AddPin(st, page)
           popped == [pinned EXCEPT !.lru_list = Tail(@)]
       IN [st |-> UnassignPageFromStore(popped, page, write_status), page |-> page]
  ELSE [st |-> st, page |-> NoPage]

\* Mutant above: a new frame gets a pin on top of the one it is born with.
AllocPage(st, write_status) ==
  IF st.free_list # <<>>
  THEN LET page == Head(st.free_list)
           popped == [st EXCEPT !.free_list = Tail(@)]
       IN [st |-> AddPin(popped, page), page |-> page]
  ELSE IF st.page_count < page_capacity
  THEN LET grown == [st EXCEPT !.page_count = @ + 1]
       IN [st |-> Create(grown, grown.page_count), page |-> grown.page_count]
  ELSE IF st.lru_list # <<>>
  THEN LET page == Head(st.lru_list)
           pinned == AddPin(st, page)
           popped == [pinned EXCEPT !.lru_list = Tail(@)]
       IN [st |-> UnassignPageFromStore(popped, page, write_status), page |-> page]
  ELSE [st |-> st, page |-> NoPage]

\* Mutant: the page is read whatever the fetch mode.
FetchStorePageAlwaysReads(st, page, fetch_mode, read_status) ==
  [st |-> [st EXCEPT !.io_log = Append(@,
             IoCall("ReadPage", st.transaction[page], st.page_id[page], read_status))],
   status |-> read_status]

FetchStorePage(st, page, fetch_mode, read_status) ==
  IF fetch_mode = kFetchPageData
  THEN [st |-> [st EXCEPT !.io_log = Append(@,
                   IoCall("ReadPage", st.transaction[page], st.page_id[page], read_status))],
        status |-> read_status]
  ELSE [st |-> st, status |-> kSuccess]

\* Mutant: the fetched page is not entered in the resident map.
AssignPageToStoreNoInsert(st, page, store, pid, fetch_mode, read_status) ==
  LET assigned == AssignPage(st, page, store, pid)
      fetch == FetchStorePage(assigned, page, fetch_mode, read_status)
  IN IF fetch.status = kSuccess
     THEN [st |-> fetch.st, status |-> kSuccess]
     ELSE [st |-> UnassignPage(fetch.st, page), status |-> fetch.status]

\* Mutant: a failed fetch leaves the frame assigned.
AssignPageToStoreKeepsAssignment(st, page, store, pid, fetch_mode, read_status) ==
  LET assigned == AssignPage(st, page, store, pid)
      fetch == FetchStorePage(assigned, page, fetch_mode, read_status)
  IN IF fetch.status = kSuccess
     THEN [st |-> [fetch.st EXCEPT !.page_map[<<store, pid>>] = page],
           status |-> kSuccess]
     ELSE [st |-> fetch.st, status |-> fetch.status]

\* Mutant: the key is entered in the resident map before the fetch.
AssignPageToStoreInsertsFirst(st, page, store, pid, fetch_mode, read_status) ==
  LET assigned == AssignPage(st, page, store, pid)
      inserted == [assigned EXCEPT !.page_map[<<store, pid>>] = page]
      fetch == FetchStorePage(inserted, page, fetch_mode, read_status)
  IN IF fetch.status = kSuccess
     THEN [st |-> fetch.st, status |-> kSuccess]
     ELSE [st |-> UnassignPage(fetch.st, page), status |-> fetch.status]

AssignPageToStore(st, page, store, pid, fetch_mode, read_status) ==
  LET assigned == AssignPage(st, page, store, pid)
      fetch == FetchStorePage(assigned, page, fetch_mode, read_status)
  IN IF fetch.status = kSuccess
     THEN [st |-> [fetch.st EXCEPT !.page_map[<<store, pid>>] = page],
           status |-> kSuccess]
     ELSE [st |-> UnassignPage(fetch.st, page), status |-> fetch.status]

\* Mutant: a frame taken from the LRU list is pinned without leaving the list.
PinStorePageStaysListed(st, page) == AddPin(st, page)

\* Mutant: a frame that is already pinned gets no further pin.
PinStorePagePinsOnce(st, page) ==
  IF IsUnpinned(st, page)
  THEN AddPin([st EXCEPT !.lru_list = Erase(@, page)], page)
  ELSE st

PinStorePage(st, page) ==
  LET unlisted == IF IsUnpinned(st, page)
                  THEN [st EXCEPT !.lru_list = Erase(@, page)]
                  ELSE st
  IN AddPin(unlisted, page)

\* Mutant: only the first frame of the list is pinned.
PinTransactionPagesFirstOnly(st, page_list) ==
  IF page_list = <<>> THEN st
  ELSE PinStorePage(st, Head(page_list))

RECURSIVE PinTransactionPages(_, _)
PinTransactionPages(st, page_list) ==
  IF page_list = <<>> THEN st
  ELSE PinTransactionPages(PinStorePage(st, Head(page_list)), Tail(page_list))

\* Mutant: an exhausted pool is reported with the wrong status.
StorePageWrongStatus(st, store, pid, fetch_mode, read_status, write_status) ==
  IF st.page_map[<<store, pid>>] # NoPage
  THEN LET page == st.page_map[<<store, pid>>]
       IN [st |-> PinStorePage(st, page), status |-> kSuccess, result |-> page]
  ELSE LET alloc == AllocPage(st, write_status)
       IN IF alloc.page = NoPage
          THEN [st |-> alloc.st, status |-> kIoError, result |-> NoPage]
          ELSE LET assign == AssignPageToStore(alloc.st, alloc.page, store, pid,
                                               fetch_mode, read_status)
               IN IF assign.status = kSuccess
                  THEN [st |-> assign.st, status |-> kSuccess, result |-> alloc.page]
                  ELSE [st |-> UnpinUnassignedPage(assign.st, alloc.page),
                        status |-> assign.status, result |-> NoPage]

\* Mutant: a hit reads the page again when the caller asks for its data.
StorePageRereadsOnHit(st, store, pid, fetch_mode, read_status, write_status) ==
  IF st.page_map[<<store, pid>>] # NoPage
  THEN LET page == st.page_map[<<store, pid>>]
           fetch == FetchStorePage(PinStorePage(st, page), page, fetch_mode, read_status)
       IN [st |-> fetch.st, status |-> fetch.status, result |-> page]
  ELSE LET alloc == AllocPage(st, write_status)
       IN IF alloc.page = NoPage
          THEN [st |-> alloc.st, status |-> kPoolFull, result |-> NoPage]
          ELSE LET assign == AssignPageToStore(alloc.st, alloc.page, store, pid,
                                               fetch_mode, read_status)
               IN IF assign.status = kSuccess
                  THEN [st |-> assign.st, status |-> kSuccess, result |-> alloc.page]
                  ELSE [st |-> UnpinUnassignedPage(assign.st, alloc.page),
                        status |-> assign.status, result |-> NoPage]

\* Mutant: the frame of a failed fetch is not unpinned.
StorePageLeaksFrame(st, store, pid, fetch_mode, read_status, write_status) ==
  IF st.page_map[<<store, pid>>] # NoPage
  THEN LET page == st.page_map[<<store, pid>>]
       IN [st |-> PinStorePage(st, page), status |-> kSuccess, result |-> page]
  ELSE LET alloc == AllocPage(st, write_status)
       IN IF alloc.page = NoPage
          THEN [st |-> alloc.st, status |-> kPoolFull, result |-> NoPage]
          ELSE LET assign == AssignPageToStore(alloc.st, alloc.page, store, pid,
                                               fetch_mode, read_status)
               IN IF assign.status = kSuccess
                  THEN [st |-> assign.st, status |-> kSuccess, result |-> alloc.page]
                  ELSE [st |-> assign.st, status |-> assign.status, result |-> NoPage]

StorePage(st, store, pid, fetch_mode, read_status, write_status) ==
  IF st.page_map[<<store, pid>>] # NoPage
  THEN LET page == st.page_map[<<store, pid>>]
       IN [st |-> PinStorePage(st, page), status |-> kSuccess, result |-> page]
  ELSE LET alloc == AllocPage(st, write_status)
       IN IF alloc.page = NoPage
          THEN [st |-> alloc.st, status |-> kPoolFull, result |-> NoPage]
          ELSE LET assign == AssignPageToStore(alloc.st, alloc.page, store, pid,
                                               fetch_mode, read_status)
               IN IF assign.status = kSuccess
                  THEN [st |-> assign.st, status |-> kSuccess, result |-> alloc.page]
                  ELSE [st |-> UnpinUnassignedPage(assign.st, alloc.page),
                        status |-> assign.status, result |-> NoPage]

\* PagePool::pinned_pages(): the frames that hold at least one pin.
PinnedPages(st) == Cardinality({page \in 1..st.page_count : st.pin_count[page] > 0})

\* Mutant: only the frames of the free list are released.
DestroyPagePoolFreeListOnly(st) ==
  [released |-> st.free_list, io_log |-> st.io_log]

\* ~PagePool: releases the frames of the free list, then those of the LRU list.
DestroyPagePool(st) ==
  [released |-> st.free_list \o st.lru_list, io_log |-> st.io_log]

(***************************************************************************)
(* The calls made on the pool                                              *)
(***************************************************************************)
Created == 1..page_count

Init ==
  /\ page_capacity \in 0..MaxCapacity
  /\ page_count = 0
  /\ pin_count = [f \in Frames |-> 0]
  /\ is_dirty = [f \in Frames |-> FALSE]
  /\ transaction = [f \in Frames |-> NoTransaction]
  /\ page_id = [f \in Frames |-> 0]
  /\ free_list = <<>>
  /\ lru_list = <<>>
  /\ page_map = [k \in Keys |-> NoPage]
  /\ io_log = <<>>
  /\ trace = <<>>
  /\ last_op = Op("PagePool", 0, 0, "", NoPage, kSuccess, NoPage)
  /\ outstanding = 0
  /\ released = <<>>
  /\ add_pins = 0
  /\ remove_pins = 0
  /\ file_exists = [path \in Paths |-> FALSE]
  /\ open_file = [user \in Users |-> NoFile]
  /\ lock_held = [user \in Users |-> FALSE]
  /\ vfs_op = VfsOp("DefaultVfs", 0, 0, FALSE, FALSE, FALSE, TRUE, kSuccess, NoFile)

\* The pool has not been destroyed.
Alive == last_op.op # "~PagePool"

CallStorePage(store, pid, fetch_mode, read_status, write_status) ==
  LET r == StorePage(St, store, pid, fetch_mode, read_status, write_status)
  IN /\ Alive
     /\ page_map[<<store, pid>>] # NoPage => pin_count[page_map[<<store, pid>>]] < MaxPins
     /\ read_status # kSuccess => Called(r.st.io_log, "ReadPage")
     /\ write_status # kSuccess => Called(r.st.io_log, "WritePage")
     /\ Commit(r.st)
     /\ last_op' = Op("StorePage", store, pid, fetch_mode, NoPage, r.status, r.result)
     /\ outstanding' = outstanding + (IF r.status = kSuccess THEN 1 ELSE 0)

CallAllocPage(write_status) ==
  LET r == AllocPage(St, write_status)
  IN /\ Alive
     /\ write_status # kSuccess => Called(r.st.io_log, "WritePage")
     /\ Commit(r.st)
     /\ last_op' = Op("AllocPage", 0, 0, "", NoPage, kSuccess, r.page)
     /\ outstanding' = outstanding + (IF r.page # NoPage THEN 1 ELSE 0)

CallUnpinStorePage(page) ==
  /\ Alive
  /\ page \in Created
  /\ transaction[page] # NoTransaction
  /\ pin_count[page] > 0
  /\ Commit(UnpinStorePage(St, page))
  /\ last_op' = Op("UnpinStorePage", 0, 0, "", page, kSuccess, NoPage)
  /\ outstanding' = outstanding - 1

CallUnpinUnassignedPage(page) ==
  /\ Alive
  /\ page \in Created
  /\ transaction[page] = NoTransaction
  /\ pin_count[page] > 0
  /\ Commit(UnpinUnassignedPage(St, page))
  /\ last_op' = Op("UnpinUnassignedPage", 0, 0, "", page, kSuccess, NoPage)
  /\ outstanding' = outstanding - 1

\* The list a transaction keeps of its frames, here in frame order.
RECURSIVE PageList(_)
PageList(pages) ==
  IF pages = {} THEN <<>>
  ELSE LET page == CHOOSE p \in pages : \A q \in pages : p <= q
       IN <<page>> \o PageList(pages \ {page})

CallPinTransactionPages(store, pages) ==
  /\ Alive
  /\ pages # {}
  /\ \A page \in pages : transaction[page] = store /\ pin_count[page] < MaxPins
  /\ Commit(PinTransactionPages(St, PageList(pages)))
  /\ last_op' = Op("PinTransactionPages", store, 0, "", NoPage, kSuccess, NoPage)
  /\ outstanding' = outstanding + Cardinality(pages)

CallMarkDirty(page, will_be_dirty) ==
  /\ Alive
  /\ page \in Created
  /\ transaction[page] # NoTransaction
  /\ pin_count[page] > 0
  /\ Commit(MarkDirty(St, page, will_be_dirty))
  /\ last_op' = Op("MarkDirty", 0, 0, "", page, kSuccess, NoPage)
  /\ UNCHANGED outstanding

CallDestroy ==
  LET r == DestroyPagePool(St)
  IN /\ Alive
     /\ PinnedPages(St) = 0
     /\ released' = r.released
     /\ io_log' = r.io_log
     /\ trace' = <<>>
     /\ last_op' = Op("~PagePool", 0, 0, "", NoPage, kSuccess, NoPage)
     /\ UNCHANGED <<page_capacity, page_count, pin_count, is_dirty, transaction, page_id,
                    free_list, lru_list, page_map, outstanding, page_vars, vfs_vars>>

Next ==
  \/ \E store \in Stores, pid \in PageIds,
        fetch_mode \in {kFetchPageData, kIgnorePageData},
        read_status \in {kSuccess, kIoError}, write_status \in {kSuccess, kIoError} :
       CallStorePage(store, pid, fetch_mode, read_status, write_status)
  \/ \E write_status \in {kSuccess, kIoError} : CallAllocPage(write_status)
  \/ \E page \in Frames : CallUnpinStorePage(page)
  \/ \E page \in Frames : CallUnpinUnassignedPage(page)
  \/ \E store \in Stores, pages \in SUBSET Frames : CallPinTransactionPages(store, pages)
  \/ \E page \in Frames, will_be_dirty \in BOOLEAN : CallMarkDirty(page, will_be_dirty)
  \/ CallDestroy

Spec == Init /\ [][Next]_vars

(***************************************************************************)
(* Pins taken and given back directly on one frame (page_unittest.cc)      *)
(***************************************************************************)

\* The pool creates its first frame.
NewFrame ==
  /\ page_count = 0
  /\ CallAllocPage(kSuccess)

PageAddPin(page) ==
  /\ page \in Created
  /\ add_pins < MaxPinCalls
  /\ pin_count' = AddPin(St, page).pin_count
  /\ add_pins' = add_pins + 1
  /\ last_op' = Op("AddPin", 0, 0, "", page, kSuccess, NoPage)
  /\ UNCHANGED <<page_capacity, page_count, is_dirty, transaction, page_id, free_list,
                 lru_list, page_map, io_log, trace, outstanding, released, remove_pins,
                 vfs_vars>>

\* RemovePin asserts that the frame holds a pin.
PageRemovePin(page) ==
  /\ page \in Created
  /\ pin_count[page] > 0
  /\ pin_count' = RemovePin(St, page).pin_count
  /\ remove_pins' = remove_pins + 1
  /\ last_op' = Op("RemovePin", 0, 0, "", page, kSuccess, NoPage)
  /\ UNCHANGED <<page_capacity, page_count, is_dirty, transaction, page_id, free_list,
                 lru_list, page_map, io_log, trace, outstanding, released, add_pins,
                 vfs_vars>>

NextPage ==
  \/ NewFrame
  \/ \E page \in Frames : PageAddPin(page)
  \/ \E page \in Frames : PageRemovePin(page)

SpecPage == Init /\ [][NextPage]_vars

(***************************************************************************)
(* The libc Vfs (libc_vfs.cc)                                              *)
(***************************************************************************)

\* std::fopen in the modes OpenLibcFile uses, on a file system that says
\* which paths exist.  "wb+x" refuses an existing file, "wb+" and "ab+"
\* create a missing one, "rb+" needs the file.
Fopen(exists, file_path, mode) ==
  IF mode = "wb+x"
  THEN IF exists[file_path] THEN [exists |-> exists, fp |-> NoFile]
       ELSE [exists |-> [exists EXCEPT ![file_path] = TRUE], fp |-> file_path]
  ELSE IF mode \in {"wb+", "ab+"}
  THEN [exists |-> [exists EXCEPT ![file_path] = TRUE], fp |-> file_path]
  ELSE IF exists[file_path] THEN [exists |-> exists, fp |-> file_path]
       ELSE [exists |-> exists, fp |-> NoFile]

\* Mutant: error_if_exists opens with "wb+", which takes an existing file.
OpenLibcFileOverwrites(exists, file_path, create_if_missing, error_if_exists, seek_ok) ==
  LET created == IF ~error_if_exists /\ create_if_missing
                 THEN Fopen(exists, file_path, "ab+").exists
                 ELSE exists
      opened == IF error_if_exists THEN Fopen(exists, file_path, "wb+")
                ELSE Fopen(created, file_path, "rb+")
  IN IF opened.fp # NoFile /\ seek_ok
     THEN [exists |-> opened.exists, fp |-> opened.fp]
     ELSE [exists |-> opened.exists, fp |-> NoFile]

\* OpenLibcFile; seek_ok is the outcome of fseek(fp, 0, SEEK_END).
OpenLibcFile(exists, file_path, create_if_missing, error_if_exists, seek_ok) ==
  LET created == IF ~error_if_exists /\ create_if_missing
                 THEN Fopen(exists, file_path, "ab+").exists
                 ELSE exists
      opened == IF error_if_exists THEN Fopen(exists, file_path, "wb+x")
                ELSE Fopen(created, file_path, "rb+")
  IN IF opened.fp # NoFile /\ seek_ok
     THEN [exists |-> opened.exists, fp |-> opened.fp]
     ELSE [exists |-> opened.exists, fp |-> NoFile]

OpenForBlockAccess(exists, file_path, create_if_missing, error_if_exists, seek_ok) ==
  LET r == OpenLibcFile(exists, file_path, create_if_missing, error_if_exists, seek_ok)
  IN IF r.fp = NoFile
     THEN [exists |-> r.exists, status |-> kIoError, file |-> NoFile]
     ELSE [exists |-> r.exists, status |-> kSuccess, file |-> r.fp]

\* LibcBlockAccessFile::Lock
Lock(file) == kSuccess

\* LibcBlockAccessFile::Close
Close(file) == kSuccess

\* LibcVfs::RemoveFile: std::remove fails on a missing file.
RemoveFile(exists, file_path) ==
  IF exists[file_path]
  THEN [exists |-> [exists EXCEPT ![file_path] = FALSE], status |-> kSuccess]
  ELSE [exists |-> exists, status |-> kIoError]

CallOpenForBlockAccess(user, file_path, create_if_missing, error_if_exists, seek_ok) ==
  LET r == OpenForBlockAccess(file_exists, file_path, create_if_missing,
                              error_if_exists, seek_ok)
  IN /\ open_file[user] = NoFile
     /\ error_if_exists => create_if_missing
     /\ file_exists' = r.exists
     /\ open_file' = [open_file EXCEPT ![user] = r.file]
     /\ vfs_op' = VfsOp("OpenForBlockAccess", user, file_path, create_if_missing,
                        error_if_exists, file_exists[file_path], seek_ok, r.status, r.file)
     /\ UNCHANGED <<pool_vars, page_vars, lock_held>>

\* A lock the file grants is held until the file is closed.
CallLock(user) ==
  LET status == Lock(open_file[user])
  IN /\ open_file[user] # NoFile
     /\ lock_held' = [lock_held EXCEPT ![user] = @ \/ status = kSuccess]
     /\ vfs_op' = VfsOp("Lock", user, open_file[user], FALSE, FALSE, TRUE, TRUE,
                        status, open_file[user])
     /\ UNCHANGED <<pool_vars, page_vars, file_exists, open_file>>

CallClose(user) ==
  /\ open_file[user] # NoFile
  /\ open_file' = [open_file EXCEPT ![user] = NoFile]
  /\ lock_held' = [lock_held EXCEPT ![user] = FALSE]
  /\ vfs_op' = VfsOp("Close", user, open_file[user], FALSE, FALSE, TRUE, TRUE,
                     Close(open_file[user]), NoFile)
  /\ UNCHANGED <<pool_vars, page_vars, file_exists>>

\* Files are removed once no user holds them open, as the tests do.
CallRemoveFile(file_path) ==
  LET r == RemoveFile(file_exists, file_path)
  IN /\ \A user \in Users : open_file[user] # file_path
     /\ file_exists' = r.exists
     /\ vfs_op' = VfsOp("RemoveFile", 0, file_path, FALSE, FALSE, file_exists[file_path],
                        TRUE, r.status, NoFile)
     /\ UNCHANGED <<pool_vars, page_vars, open_file, lock_held>>

NextVfs ==
  \/ \E user \in Users, file_path \in Paths,
        create_if_missing \in BOOLEAN, error_if_exists \in BOOLEAN, seek_ok \in BOOLEAN :
       CallOpenForBlockAccess(user, file_path, create_if_missing, error_if_exists, seek_ok)
  \/ \E user \in Users : CallLock(user)
  \/ \E user \in Users : CallClose(user)
  \/ \E file_path \in Paths : CallRemoveFile(file_path)

SpecVfs == Init /\ [][NextVfs]_vars

(***************************************************************************)
(* Properties                                                              *)
(***************************************************************************)
Assigned(page) == transaction[page] # NoTransaction

KeyOf(page) == <<transaction[page], page_id[page]>>

LastKey == <<last_op.store, last_op.page_id>>

CalledWith(log, call, status) ==
  \E i \in 1..Len(log) : log[i].call = call /\ log[i].status = status

\* C1: the resident map holds (store, page-id) -> f exactly when frame f is
\* assigned to (store, page-id), and no two frames have the same assignment.
ResidentMapMatchesAssignment ==
  /\ \A key \in Keys : page_map[key] \in Created \cup {NoPage}
  /\ \A key \in Keys : \A page \in Created :
       (page_map[key] = page) <=> (Assigned(page) /\ KeyOf(page) = key)
  /\ \A page \in Created : Assigned(page) => KeyOf(page) \in Keys
  /\ \A page \in Created : \A other \in Created :
       (page # other /\ Assigned(page) /\ Assigned(other)) => KeyOf(page) # KeyOf(other)

\* A StorePage miss has evicted a dirty page and made the requested one
\* resident next to another resident page.
EvictedAndAssigned ==
  /\ last_op.op = "StorePage"
  /\ last_op.status = kSuccess
  /\ Called(io_log, "WritePage")
  /\ page_map[LastKey] = last_op.result
  /\ Cardinality({key \in Keys : page_map[key] # NoPage}) = 2

\* C2: between operations a frame is in the free list iff it is unpinned and
\* unassigned, in the LRU list iff it is unpinned and assigned, and in no list
\* iff it is pinned; it is never in a list twice.
FramesInExactlyOneList ==
  /\ Members(free_list) \subseteq Created
  /\ Members(lru_list) \subseteq Created
  /\ Cardinality(Members(free_list)) = Len(free_list)
  /\ Cardinality(Members(lru_list)) = Len(lru_list)
  /\ \A page \in Created :
       /\ page \in Members(free_list) <=> (pin_count[page] = 0 /\ ~Assigned(page))
       /\ page \in Members(lru_list) <=> (pin_count[page] = 0 /\ Assigned(page))
       /\ (page \notin Members(free_list) /\ page \notin Members(lru_list))
            <=> pin_count[page] > 0

\* A frame is on the free list, another is pinned with more than one pin.
FreeAndPinnedFrames ==
  /\ free_list # <<>>
  /\ \E page \in Created : Assigned(page) /\ pin_count[page] = 2

\* C3: the pool never creates more than page_capacity frames, and with
\* page_capacity = 0 every StorePage returns kPoolFull.
PageCountWithinCapacity ==
  /\ page_count <= page_capacity
  /\ (page_capacity = 0 /\ last_op.op = "StorePage") =>
       (last_op.status = kPoolFull /\ last_op.result = NoPage)

\* StorePage has been called on a pool of capacity 0.
StorePageOnEmptyPool ==
  /\ page_capacity = 0
  /\ last_op.op = "StorePage"

\* C4: when StorePage returns kSuccess the returned frame is pinned, in no
\* list, assigned to the requested key and is the frame the map holds for it.
StorePageSuccessResult ==
  (last_op.op = "StorePage" /\ last_op.status = kSuccess) =>
    /\ last_op.result \in Created
    /\ pin_count[last_op.result] >= 1
    /\ last_op.result \notin Members(free_list)
    /\ last_op.result \notin Members(lru_list)
    /\ Assigned(last_op.result)
    /\ KeyOf(last_op.result) = LastKey
    /\ page_map[LastKey] = last_op.result

\* StorePage succeeded on the miss path, reading the page into a frame the
\* pool had to take from another page.
StorePageMissSucceeded ==
  /\ last_op.op = "StorePage"
  /\ last_op.status = kSuccess
  /\ CalledWith(io_log, "ReadPage", kSuccess)
  /\ page_count = page_capacity
  /\ pin_count[last_op.result] = 1

\* The step is a StorePage call on a key that is not resident.
StorePageMisses ==
  /\ last_op'.op = "StorePage"
  /\ page_map[<<last_op'.store, last_op'.page_id>>] = NoPage

\* AllocPage can neither reuse a free frame nor create one.
MustEvict == free_list = <<>> /\ page_count = page_capacity /\ lru_list # <<>>

Calls(log, call) == {i \in 1..Len(log) : log[i].call = call}

\* C5: StorePage on a resident key returns the frame mapped to it, creates and
\* evicts nothing, adds exactly one pin and leaves the frame outside the LRU
\* list, whether the frame was unpinned or already pinned.
StorePageHitRepins ==
  [][\A key \in Keys :
       (/\ page_map[key] # NoPage
        /\ last_op'.op = "StorePage"
        /\ <<last_op'.store, last_op'.page_id>> = key) =>
         LET page == page_map[key]
         IN /\ last_op'.status = kSuccess
            /\ last_op'.result = page
            /\ page_count' = page_count
            /\ page_map' = page_map
            /\ transaction' = transaction
            /\ page_id' = page_id
            /\ pin_count' = [pin_count EXCEPT ![page] = @ + 1]
            /\ page \notin Members(lru_list')
            /\ Members(lru_list') = Members(lru_list) \ {page}]_vars

\* StorePage hit a frame that was already pinned.
HitOnPinnedFrame ==
  /\ last_op.op = "StorePage"
  /\ last_op.status = kSuccess
  /\ last_op.result \in Created
  /\ pin_count[last_op.result] = 2
  /\ lru_list # <<>>

\* C6: with page_count = page_capacity and both lists empty, StorePage on a
\* key that is not resident returns kPoolFull, changes nothing in the pool and
\* calls no store.
PoolFullChangesNothing ==
  [][(/\ StorePageMisses
      /\ page_count = page_capacity
      /\ free_list = <<>>
      /\ lru_list = <<>>) =>
        /\ last_op'.status = kPoolFull
        /\ last_op'.result = NoPage
        /\ io_log' = <<>>
        /\ UNCHANGED <<page_count, pin_count, is_dirty, transaction, page_id,
                       free_list, lru_list, page_map>>]_vars

\* StorePage returned kPoolFull on a pool whose frames are all pinned.
PoolFullAllPinned ==
  /\ last_op.op = "StorePage"
  /\ last_op.status = kPoolFull
  /\ page_capacity > 0
  /\ page_count = page_capacity
  /\ \A page \in Created : pin_count[page] >= 1

\* C7: a frame that is assigned and pinned keeps its assignment and stays
\* resident through every step, so it is never an eviction victim.
PinnedFrameKeepsAssignment ==
  [][\A page \in Created :
       (Assigned(page) /\ pin_count[page] > 0) =>
         /\ transaction'[page] = transaction[page]
         /\ page_id'[page] = page_id[page]
         /\ page_map'[KeyOf(page)] = page]_vars

\* StorePage evicted a dirty page while another frame was assigned and pinned.
EvictionBesidePinnedFrame ==
  /\ last_op.op = "StorePage"
  /\ last_op.status = kSuccess
  /\ Called(io_log, "WritePage")
  /\ \E page \in Created :
       page # last_op.result /\ Assigned(page) /\ pin_count[page] > 0

\* C8: a StorePage miss that must evict takes the frame at the front of the LRU
\* list and leaves the frames behind it resident and in order; the LRU list
\* only ever loses frames or gains one at its tail, so its front is the frame
\* unpinned earliest.
EvictionTakesLruFront ==
  [][/\ (StorePageMisses /\ MustEvict) =>
          LET victim == Head(lru_list)
          IN /\ page_map'[KeyOf(victim)] = NoPage
             /\ <<transaction'[victim], page_id'[victim]>> # KeyOf(victim)
             /\ lru_list' = Tail(lru_list)
             /\ page_count' = page_count
             /\ \A page \in Members(Tail(lru_list)) :
                  /\ transaction'[page] = transaction[page]
                  /\ page_id'[page] = page_id[page]
                  /\ page_map'[KeyOf(page)] = page
     /\ LET Stays(page) == page \in Members(lru_list')
            kept == SelectSeq(lru_list, Stays)
        IN \/ lru_list' = kept
           \/ \E page \in Created \ Members(lru_list) : lru_list' = Append(kept, page)]_vars

\* Two pages were unpinned one after the other on a full pool of two frames,
\* and fetching a third page evicted the first and kept the second.
LruFrontEvicted ==
  /\ last_op.op = "StorePage"
  /\ last_op.status = kSuccess
  /\ Called(io_log, "WritePage")
  /\ page_capacity = 2
  /\ page_count = 2
  /\ Len(lru_list) = 1
  /\ Cardinality({key \in Keys : page_map[key] # NoPage}) = 2

\* C9: StorePage calls WritePage only when it evicts a dirty frame, then once,
\* for the evicted page on the store that owns it and before the ReadPage of the
\* requested page; after the eviction the old key is not resident.
EvictionWritesBackDirtyFirst ==
  [][last_op'.op = "StorePage" =>
       LET evicts == StorePageMisses /\ MustEvict
           log == io_log'
       IN /\ \A i \in Calls(log, "WritePage") :
               /\ evicts
               /\ is_dirty[Head(lru_list)]
               /\ <<log[i].store, log[i].page_id>> = KeyOf(Head(lru_list))
          /\ (evicts /\ is_dirty[Head(lru_list)]) =>
               Cardinality(Calls(log, "WritePage")) = 1
          /\ \A i \in Calls(log, "WritePage") : \A j \in Calls(log, "ReadPage") : i < j
          /\ \A j \in Calls(log, "ReadPage") :
               <<log[j].store, log[j].page_id>> = <<last_op'.store, last_op'.page_id>>
          /\ evicts => page_map'[KeyOf(Head(lru_list))] = NoPage]_vars

\* A dirty page of one store was written back, then the requested page of
\* another store was read.
DirtyEvictionThenRead ==
  /\ last_op.op = "StorePage"
  /\ Len(io_log) = 2
  /\ io_log[1].call = "WritePage"
  /\ io_log[2].call = "ReadPage"
  /\ io_log[1].store # io_log[2].store
  /\ page_map[<<io_log[1].store, io_log[1].page_id>>] = NoPage

\* C10: when the write-back of an evicted frame fails, the pool closes the
\* store that owned the frame, writes only once, and StorePage returns
\* kSuccess with a pinned frame for the requested key unless its own read fails.
FailedWriteBackClosesDonor ==
  [][(last_op'.op = "StorePage" /\ CalledWith(io_log', "WritePage", kIoError)) =>
       LET log == io_log'
       IN /\ lru_list # <<>>
          /\ Cardinality(Calls(log, "WritePage")) = 1
          /\ Cardinality(Calls(log, "Close")) = 1
          /\ \E i \in Calls(log, "WritePage") :
               /\ i + 1 \in Calls(log, "Close")
               /\ log[i + 1].store = transaction[Head(lru_list)]
          /\ last_op'.status =
               IF CalledWith(log, "ReadPage", kIoError) THEN kIoError ELSE kSuccess
          /\ ~CalledWith(log, "ReadPage", kIoError) =>
               /\ last_op'.result \in Created
               /\ pin_count'[last_op'.result] >= 1
               /\ <<transaction'[last_op'.result], page_id'[last_op'.result]>>
                    = <<last_op'.store, last_op'.page_id>>
               /\ page_map'[<<last_op'.store, last_op'.page_id>>] = last_op'.result]_vars

\* The write-back failed, the donor store was closed, the read succeeded and
\* StorePage returned kSuccess.
FailedWriteBackSwallowed ==
  /\ last_op.op = "StorePage"
  /\ last_op.status = kSuccess
  /\ CalledWith(io_log, "WritePage", kIoError)
  /\ Called(io_log, "Close")
  /\ CalledWith(io_log, "ReadPage", kSuccess)
  /\ pin_count[last_op.result] >= 1

\* The frame AllocPage hands to a StorePage miss.
AllocatedFrame ==
  IF free_list # <<>> THEN Head(free_list)
  ELSE IF page_count < page_capacity THEN page_count + 1
  ELSE IF lru_list # <<>> THEN Head(lru_list)
  ELSE NoPage

\* The step is a StorePage call whose ReadPage failed.
StorePageReadFails ==
  /\ last_op'.op = "StorePage"
  /\ CalledWith(io_log', "ReadPage", kIoError)

\* C11: when ReadPage fails, StorePage returns kIoError, the frame it had
\* obtained ends unassigned, clean, unpinned and on the free list, and the
\* requested key is not resident.
FailedReadFreesFrame ==
  [][StorePageReadFails =>
       /\ last_op'.status = kIoError
       /\ last_op'.result = NoPage
       /\ last_op'.fetch_mode = kFetchPageData
       /\ page_map[<<last_op'.store, last_op'.page_id>>] = NoPage
       /\ page_map'[<<last_op'.store, last_op'.page_id>>] = NoPage
       /\ AllocatedFrame # NoPage
       /\ transaction'[AllocatedFrame] = NoTransaction
       /\ ~is_dirty'[AllocatedFrame]
       /\ pin_count'[AllocatedFrame] = 0
       /\ AllocatedFrame \in Members(free_list')
       /\ AllocatedFrame \notin Members(lru_list')
       /\ \A page \in 1..page_count' : page_map'[<<last_op'.store, last_op'.page_id>>] # page]_vars

\* A read failed on a frame that had just been taken from a dirty page.
ReadFailedAfterEviction ==
  /\ last_op.op = "StorePage"
  /\ last_op.status = kIoError
  /\ Called(io_log, "WritePage")
  /\ CalledWith(io_log, "ReadPage", kIoError)
  /\ free_list # <<>>
  /\ page_map[LastKey] = NoPage

ResidentKeys == {key \in Keys : page_map[key] # NoPage}

\* C12 as stated: a StorePage whose ReadPage fails leaves the resident keys,
\* their pin counts and dirty flags as they were and closes no store.
FailedReadChangesNothing ==
  [][StorePageReadFails =>
       /\ page_map' = page_map
       /\ \A key \in ResidentKeys :
            /\ pin_count'[page_map[key]] = pin_count[page_map[key]]
            /\ is_dirty'[page_map[key]] = is_dirty[page_map[key]]
       /\ ~Called(io_log', "Close")]_vars

\* C12 as amended: a StorePage whose ReadPage fails changes no resident key,
\* pin count or dirty flag and closes no store, except that when it had to
\* evict, the page at the front of the LRU list is no longer resident (and its
\* store is closed if its write-back failed).
FailedReadChangesOnlyVictim ==
  [][StorePageReadFails =>
       LET evicts == MustEvict
           victims == IF evicts THEN {Head(lru_list)} ELSE {}
       IN /\ page_map' = [key \in Keys |->
                            IF page_map[key] \in victims THEN NoPage ELSE page_map[key]]
          /\ \A key \in ResidentKeys :
               page_map[key] \notin victims =>
                 /\ pin_count'[page_map[key]] = pin_count[page_map[key]]
                 /\ is_dirty'[page_map[key]] = is_dirty[page_map[key]]
                 /\ transaction'[page_map[key]] = transaction[page_map[key]]
                 /\ page_id'[page_map[key]] = page_id[page_map[key]]
          /\ lru_list' = (IF evicts THEN Tail(lru_list) ELSE lru_list)
          /\ Called(io_log', "Close") =>
               /\ evicts
               /\ is_dirty[Head(lru_list)]
               /\ CalledWith(io_log', "WritePage", kIoError)]_vars

\* A read failed on a pool that keeps another page resident, without eviction.
ReadFailedBesideResidentPage ==
  /\ last_op.op = "StorePage"
  /\ last_op.status = kIoError
  /\ io_log = <<IoCall("ReadPage", last_op.store, last_op.page_id, kIoError)>>
  /\ ResidentKeys # {}
  /\ free_list # <<>>

RECURSIVE SumPins(_, _)
SumPins(pins, pages) ==
  IF pages = {} THEN 0
  ELSE LET page == CHOOSE p \in pages : TRUE
       IN pins[page] + SumPins(pins, pages \ {page})

\* C13: the pin counts of all frames add up to the pins handed out by
\* StorePage, AllocPage and PinTransactionPages and not yet given back, and a
\* StorePage that fails leaves the sum as it was.
PinsMatchOutstanding ==
  /\ [](SumPins(pin_count, Created) = outstanding)
  /\ [][(last_op'.op = "StorePage" /\ last_op'.status # kSuccess) =>
          SumPins(pin_count', 1..page_count') = SumPins(pin_count, Created)]_vars

\* StorePage failed on a read while callers held pins.
FailedStorePageWithPinsHeld ==
  /\ last_op.op = "StorePage"
  /\ last_op.status = kIoError
  /\ outstanding >= 2

\* C14 as stated: a frame unpinned to zero by UnpinUnassignedPage is where
\* AllocPage takes from, the front of the free list.
FreedFrameIsNextAllocated ==
  (last_op.op = "UnpinUnassignedPage" /\ pin_count[last_op.page] = 0) =>
    Head(free_list) = last_op.page

Statuses == {kSuccess, kIoError}

\* C15 as stated: StorePage(s, p, FetchData) followed by the matching
\* UnpinStorePage changes nothing but makes (s, p) resident with its frame at
\* the tail of the LRU list.
RoundTripOnlyAddsKey ==
  Alive =>
    \A store \in Stores, pid \in PageIds, write_status \in Statuses :
      LET r == StorePage(St, store, pid, kFetchPageData, kSuccess, write_status)
          key == <<store, pid>>
      IN r.status = kSuccess =>
           LET after == UnpinStorePage(r.st, r.result)
           IN /\ {k \in Keys : after.page_map[k] # NoPage} = ResidentKeys \cup {key}
              /\ \A k \in ResidentKeys \ {key} :
                   /\ after.page_map[k] = page_map[k]
                   /\ after.pin_count[page_map[k]] = pin_count[page_map[k]]
                   /\ after.is_dirty[page_map[k]] = is_dirty[page_map[k]]
              /\ after.lru_list = Append(Erase(lru_list, r.result), r.result)

\* C15 as amended: the round trip leaves every other frame as it was and
\* (s, p) resident; its frame is at the tail of the LRU list unless it was
\* already pinned, and a miss that had to evict has dropped the page that was
\* at the front of the LRU list.
RoundTripLaw ==
  Alive =>
    \A store \in Stores, pid \in PageIds, write_status \in Statuses :
      LET r == StorePage(St, store, pid, kFetchPageData, kSuccess, write_status)
          key == <<store, pid>>
          hit == page_map[key] # NoPage
          victims == IF ~hit /\ MustEvict THEN {Head(lru_list)} ELSE {}
      IN r.status = kSuccess =>
           LET after == UnpinStorePage(r.st, r.result)
               page == r.result
           IN /\ after.page_map =
                   [k \in Keys |-> IF k = key THEN page
                                   ELSE IF page_map[k] \in victims THEN NoPage
                                   ELSE page_map[k]]
              /\ \A other \in Created \ {page} :
                   /\ after.pin_count[other] = pin_count[other]
                   /\ after.is_dirty[other] = is_dirty[other]
                   /\ after.transaction[other] = transaction[other]
                   /\ after.page_id[other] = page_id[other]
              /\ after.pin_count[page] = (IF hit THEN pin_count[page] ELSE 0)
              /\ after.is_dirty[page] = (IF hit THEN is_dirty[page] ELSE FALSE)
              /\ after.free_list = (IF free_list # <<>> /\ ~hit THEN Tail(free_list)
                                    ELSE free_list)
              /\ after.lru_list =
                   (IF hit /\ pin_count[page] > 0 THEN lru_list
                    ELSE Append(Erase(lru_list, page), page))

\* A page was fetched and unpinned again and now sits at the tail of the LRU
\* list behind another page.
RoundTripCompleted ==
  /\ last_op.op = "UnpinStorePage"
  /\ pin_count[last_op.page] = 0
  /\ Len(lru_list) >= 2
  /\ lru_list[Len(lru_list)] = last_op.page
  /\ page_count = page_capacity

\* C16: ~PagePool calls no store, runs with no pin held and releases every
\* frame the pool created exactly once.
DestructionReleasesEveryFrame ==
  (last_op.op = "~PagePool") =>
    /\ io_log = <<>>
    /\ outstanding = 0
    /\ \A page \in Created : pin_count[page] = 0
    /\ Len(released) = page_count
    /\ Members(released) = Created

\* The pool was destroyed with a free frame and a dirty page on the LRU list.
DestroyedWithDirtyPage ==
  /\ last_op.op = "~PagePool"
  /\ free_list # <<>>
  /\ \E page \in Members(lru_list) : is_dirty[page]

\* C17 as stated: two users never both hold the lock of the same file.
LockIsExclusive ==
  \A user \in Users : \A other \in Users \ {user} :
    ~(/\ lock_held[user]
      /\ lock_held[other]
      /\ open_file[user] # NoFile
      /\ open_file[user] = open_file[other])

LastOpen == vfs_op.op = "OpenForBlockAccess"

\* What the flags of an open demand of its outcome.
OpenFollowsFlags ==
  /\ (vfs_op.create_if_missing /\ vfs_op.error_if_exists) =>
       /\ (vfs_op.status = kSuccess) <=> ~vfs_op.existed
       /\ vfs_op.status = kSuccess => file_exists[vfs_op.path]
  /\ (~vfs_op.error_if_exists /\ vfs_op.existed) => vfs_op.status = kSuccess

\* An open without create_if_missing fails on a missing file and leaves it
\* missing; a failed open returns no file.
OpenMissingFails ==
  /\ (~vfs_op.create_if_missing /\ ~vfs_op.existed) =>
       /\ vfs_op.status # kSuccess
       /\ ~file_exists[vfs_op.path]
  /\ (vfs_op.status = kSuccess) <=> (vfs_op.file # NoFile)

UnpinnedWhenRemovesExceedAdds ==
  /\ (last_op.op = "AllocPage" /\ last_op.result # NoPage) =>
       /\ pin_count[last_op.result] = 1
       /\ transaction[last_op.result] = NoTransaction
  /\ \A page \in Created :
       /\ pin_count[page] = 1 + add_pins - remove_pins
       /\ IsUnpinned(St, page) <=> (remove_pins = 1 + add_pins)

\* Every pin taken on the frame, and the one it was born with, was given back.
AllPinsRemoved ==
  /\ page_count = 1
  /\ add_pins >= 2
  /\ remove_pins = add_pins + 1
  /\ IsUnpinned(St, 1)

\* C21: AllocPage takes the front of the free list if there is one, else
\* creates a frame while page_count < page_capacity, else evicts the front of
\* the LRU list, else returns null; it evicts nothing in the first two cases
\* and every frame it returns has one pin and no assignment.
AllocPageFollowsOrder ==
  Alive =>
    \A write_status \in Statuses :
      LET r == AllocPage(St, write_status)
      IN /\ free_list # <<>> =>
              /\ r.page = Head(free_list)
              /\ r.st.free_list = Tail(free_list)
              /\ r.st.page_count = page_count
         /\ (free_list = <<>> /\ page_count < page_capacity) =>
              /\ r.page = page_count + 1
              /\ r.st.page_count = page_count + 1
              /\ r.st.free_list = <<>>
         /\ MustEvict =>
              /\ r.page = Head(lru_list)
              /\ r.st.lru_list = Tail(lru_list)
              /\ r.st.page_count = page_count
              /\ r.st.page_map = [key \in Keys |-> IF page_map[key] = r.page THEN NoPage
                                                   ELSE page_map[key]]
         /\ (free_list = <<>> /\ page_count >= page_capacity /\ lru_list = <<>>) =>
              /\ r.page = NoPage
              /\ r.st = St
         /\ ~MustEvict =>
              /\ r.st.page_map = page_map
              /\ r.st.lru_list = lru_list
              /\ r.st.io_log = <<>>
         /\ r.page # NoPage =>
              /\ r.st.pin_count[r.page] = 1
              /\ r.st.transaction[r.page] = NoTransaction
              /\ ~r.st.is_dirty[r.page]

\* AllocPage reused a free frame although a resident page waited on the LRU
\* list.
FreeFrameTakenBeforeEviction ==
  /\ last_op.op = "AllocPage"
  /\ last_op.result # NoPage
  /\ Len(trace) = 1
  /\ trace[1].event = "AddPin"
  /\ ~trace[1].listed
  /\ lru_list # <<>>

\* C22: UnpinStorePage on an assigned, pinned frame takes one pin off; at
\* zero the frame goes to the tail of the LRU list and stays resident, above
\* zero it stays in no list.
UnpinStorePageAppendsAtTail ==
  Alive =>
    \A page \in Created :
      (Assigned(page) /\ pin_count[page] > 0) =>
        LET after == UnpinStorePage(St, page)
        IN /\ after.pin_count = [pin_count EXCEPT ![page] = @ - 1]
           /\ after.page_map = page_map
           /\ after.transaction = transaction
           /\ after.page_id = page_id
           /\ after.free_list = free_list
           /\ pin_count[page] = 1 => after.lru_list = Append(lru_list, page)
           /\ pin_count[page] > 1 =>
                /\ after.lru_list = lru_list
                /\ page \notin Members(after.lru_list) \cup Members(after.free_list)

\* The last pin of a resident page was given back while another page was on
\* the LRU list.
UnpinnedBehindOlderPage ==
  /\ last_op.op = "UnpinStorePage"
  /\ pin_count[last_op.page] = 0
  /\ page_map[KeyOf(last_op.page)] = last_op.page
  /\ Len(lru_list) = 2
  /\ lru_list[2] = last_op.page

\* The frames a transaction may hand to PinTransactionPages: assigned to it.
TransactionPages(store) == {page \in Created : transaction[page] = store}

\* C23: PinTransactionPages adds exactly one pin to every listed frame, takes
\* off the LRU list exactly the listed frames that had no pin, and changes
\* no other frame, no assignment and no resident-map entry.
PinTransactionPagesFrame ==
  Alive =>
    \A store \in Stores : \A pages \in SUBSET TransactionPages(store) :
      LET after == PinTransactionPages(St, PageList(pages))
      IN /\ after.pin_count =
              [page \in Frames |-> IF page \in pages THEN pin_count[page] + 1
                                   ELSE pin_count[page]]
         /\ Members(lru_list) \ Members(after.lru_list) =
              {page \in pages : pin_count[page] = 0}
         /\ after.lru_list =
              LET Stays(page) == page \notin pages IN SelectSeq(lru_list, Stays)
         /\ after.free_list = free_list
         /\ after.transaction = transaction
         /\ after.page_id = page_id
         /\ after.is_dirty = is_dirty
         /\ after.page_map = page_map
         /\ after.page_count = page_count
         /\ after.io_log = <<>>

\* PinTransactionPages pinned two frames, one taken off the LRU list and one
\* that was already pinned.
PinnedListedAndPinnedFrames ==
  /\ last_op.op = "PinTransactionPages"
  /\ Len(trace) = 2
  /\ pin_count[trace[1].page] # pin_count[trace[2].page]
  /\ lru_list = <<>>

\* C24 as stated: a second PinTransactionPages with the same list changes
\* neither the pin counts nor the lists.
PinTransactionPagesIdempotent ==
  Alive =>
    \A store \in Stores : \A pages \in SUBSET TransactionPages(store) :
      LET once == PinTransactionPages(St, PageList(pages))
          twice == PinTransactionPages(once, PageList(pages))
      IN /\ twice.pin_count = once.pin_count
         /\ twice.lru_list = once.lru_list
         /\ twice.free_list = once.free_list

\* C24 as amended: a second PinTransactionPages with the same list leaves
\* the lists as the first call left them, the listed frames in no list, and
\* adds one more pin to every listed frame.
PinTransactionPagesTwice ==
  Alive =>
    \A store \in Stores : \A pages \in SUBSET TransactionPages(store) :
      LET once == PinTransactionPages(St, PageList(pages))
          twice == PinTransactionPages(once, PageList(pages))
      IN /\ twice.lru_list = once.lru_list
         /\ twice.free_list = once.free_list
         /\ pages \cap (Members(twice.lru_list) \cup Members(twice.free_list)) = {}
         /\ twice.pin_count =
              [page \in Frames |-> IF page \in pages THEN once.pin_count[page] + 1
                                   ELSE once.pin_count[page]]
         /\ twice.page_map = once.page_map
         /\ twice.transaction = once.transaction

\* PinTransactionPages pinned a frame that already held a pin, as a repeated
\* call does.
PinnedFramePinnedAgain ==
  /\ last_op.op = "PinTransactionPages"
  /\ Len(trace) = 1
  /\ ~trace[1].listed
  /\ pin_count[trace[1].page] = 2
  /\ lru_list = <<>>

\* C25 as stated: whenever the pool calls AddPin on a frame, the frame is
\* on neither the free list nor the LRU list at that moment.
AddPinOnUnlistedFrame ==
  \A i \in 1..Len(trace) : trace[i].event = "AddPin" => ~trace[i].listed

\* The steps of the last operation that are the given event.
Steps(event) == {i \in 1..Len(trace) : trace[i].event = event}

\* Once an eviction is over, the key of the page written back is not in the
\* resident map.
WrittenBackKeyNotResident ==
  \A i \in Calls(io_log, "WritePage") :
    page_map[<<io_log[i].store, io_log[i].page_id>>] = NoPage

\* C26 as stated: WritePage for an evicted dirty page is called while the
\* resident map still holds its key, and after the eviction the key is gone.
WriteBackBeforeMapErase ==
  /\ \A i \in Steps("WritePage") : trace[i].mapped
  /\ WrittenBackKeyNotResident

\* C26 as amended: the key of an evicted dirty page is erased from the
\* resident map before WritePage is called, and after the eviction the key is
\* gone.
MapEraseBeforeWriteBack ==
  /\ \A i \in Steps("WritePage") : ~trace[i].mapped
  /\ Cardinality(Steps("WritePage")) = Cardinality(Calls(io_log, "WritePage"))
  /\ WrittenBackKeyNotResident

\* AllocPage evicted a dirty page and wrote it back.
AllocPageWroteBack ==
  /\ last_op.op = "AllocPage"
  /\ Steps("WritePage") # {}
  /\ CalledWith(io_log, "WritePage", kSuccess)

\* Step i unassigns its frame inside the UnassignPageFromStore call entered
\* at an earlier step, after the write-back if the frame was dirty.
UnassignedByEviction(i) ==
  \E j \in Steps("UnassignPageFromStore") :
    /\ j < i
    /\ trace[j].page = trace[i].page
    /\ \A k \in Steps("WillCacheStoreData") : trace[k].page = trace[i].page => ~(j < k /\ k < i)
    /\ trace[j].dirty =>
         \E k \in Steps("WritePage") : j < k /\ k < i /\ trace[k].page = trace[i].page

\* Step i unassigns the frame that the step before it bound, after a failed
\* ReadPage: the failure path of AssignPageToStore.
UnassignedByFailedFetch(i) ==
  /\ i > 1
  /\ trace[i - 1].event = "WillCacheStoreData"
  /\ trace[i - 1].page = trace[i].page
  /\ CalledWith(io_log, "ReadPage", kIoError)

\* C27 as stated: a frame becomes unassigned only inside
\* UnassignPageFromStore, after the write-back if it is dirty.
UnassignedOnlyByEviction ==
  \A i \in Steps("DoesNotCacheStoreData") : UnassignedByEviction(i)

\* C27 as amended: a frame becomes unassigned inside UnassignPageFromStore,
\* after the write-back if it is dirty, or on the failure path of
\* AssignPageToStore, which unassigns the frame it has just bound; in both
\* cases the resident map does not hold the frame at that moment.
UnassignedByEvictionOrFailedFetch ==
  \A i \in Steps("DoesNotCacheStoreData") :
    /\ UnassignedByEviction(i) \/ UnassignedByFailedFetch(i)
    /\ ~trace[i].mapped
    /\ UnassignedByFailedFetch(i) => ~trace[i].dirty

\* StorePage evicted a dirty page, wrote it back, bound the frame to the new
\* key and unassigned it again when the read failed.
EvictedThenFailedFetch ==
  /\ last_op.op = "StorePage"
  /\ last_op.status = kIoError
  /\ Steps("WritePage") # {}
  /\ Cardinality(Steps("DoesNotCacheStoreData")) = 2

\* C28: every unassigned frame is clean, so a frame on the free list has no
\* transaction and is not dirty when AllocPage pops it.
UnassignedFramesAreClean ==
  /\ \A page \in Created : ~Assigned(page) => ~is_dirty[page]
  /\ \A page \in Members(free_list) : ~Assigned(page) /\ ~is_dirty[page]
  /\ \A i \in Steps("AddPin") :
       (~trace[i].listed /\ ~trace[i].mapped) => ~trace[i].dirty

\* A page that was dirty when evicted, with a failed write-back, sits on the
\* free list after the read into its frame failed too.
DirtyEvictedFrameFreed ==
  /\ last_op.op = "StorePage"
  /\ last_op.status = kIoError
  /\ CalledWith(io_log, "WritePage", kIoError)
  /\ free_list # <<>>
  /\ \E i \in Steps("UnassignPageFromStore") :
       trace[i].dirty /\ trace[i].page \in Members(free_list)

FetchModes == {kFetchPageData, kIgnorePageData}

\* C29: StorePage on a resident key calls no store and does no transaction
\* bookkeeping, whatever the fetch mode; it leaves the frame's dirty flag and
\* assignment alone and returns kSuccess, also when every frame is pinned.
StorePageHitDoesNoIo ==
  Alive =>
    \A key \in ResidentKeys, fetch_mode \in FetchModes,
       read_status \in Statuses, write_status \in Statuses :
      LET r == StorePage(St, key[1], key[2], fetch_mode, read_status, write_status)
      IN /\ r.status = kSuccess
         /\ r.result = page_map[key]
         /\ r.st.io_log = <<>>
         /\ \A i \in 1..Len(r.st.trace) : r.st.trace[i].event = "AddPin"
         /\ r.st.is_dirty = is_dirty
         /\ r.st.transaction = transaction
         /\ r.st.page_id = page_id
         /\ r.st.page_map = page_map
         /\ r.st.page_count = page_count
         /\ r.st.free_list = free_list

\* StorePage hit a dirty page with IgnoreData while every frame of the full
\* pool was pinned.
HitWithEveryFramePinned ==
  /\ last_op.op = "StorePage"
  /\ last_op.fetch_mode = kIgnorePageData
  /\ last_op.status = kSuccess
  /\ io_log = <<>>
  /\ page_count = page_capacity
  /\ \A page \in Created : pin_count[page] > 0
  /\ pin_count[last_op.result] = 2
  /\ is_dirty[last_op.result]

\* AllocPage has no frame to give: none free, none to create, none to evict.
PoolExhausted == free_list = <<>> /\ page_count >= page_capacity /\ lru_list = <<>>

\* C30: a StorePage miss with IgnoreData never calls ReadPage and never
\* returns kIoError: it returns kPoolFull when no frame can be had and
\* kSuccess otherwise, also when the write-back of the evicted page fails, and
\* on success the key is resident in a frame that is not dirty.
IgnoreDataMissNeverReads ==
  Alive =>
    \A key \in Keys \ ResidentKeys, read_status \in Statuses, write_status \in Statuses :
      LET r == StorePage(St, key[1], key[2], kIgnorePageData, read_status, write_status)
      IN /\ ~Called(r.st.io_log, "ReadPage")
         /\ r.status = (IF PoolExhausted THEN kPoolFull ELSE kSuccess)
         /\ r.status = kSuccess =>
              /\ r.result \in 1..r.st.page_count
              /\ r.st.page_map[key] = r.result
              /\ ~r.st.is_dirty[r.result]
              /\ r.st.pin_count[r.result] = 1
         /\ r.status # kSuccess => r.result = NoPage

\* An IgnoreData miss succeeded although the write-back of the page it
\* evicted failed.
IgnoreDataMissAfterFailedWriteBack ==
  /\ last_op.op = "StorePage"
  /\ last_op.fetch_mode = kIgnorePageData
  /\ last_op.status = kSuccess
  /\ CalledWith(io_log, "WritePage", kIoError)
  /\ page_map[LastKey] = last_op.result
  /\ ~is_dirty[last_op.result]

====
